---- MODULE Spec2Model ----
(***************************************************************************)
(* Inventory reconciliation scripts of cupid-shopify.                      *)
(*                                                                         *)
(*   import-inventory-to-shopify.py   import mode: refresh the identifier  *)
(*       cache by a paginated scan, then set every row of the input file   *)
(*       on the remote, write the missing-barcodes file, archive the input *)
(*   compare-shopify-to-400-inventory.py   compare mode: scan the remote   *)
(*       catalog, zero what is in stock there and absent from the latest   *)
(*       inventory file, except the whitelist                              *)
(*   inventory-import-to-shopify.py, inventory-import-to-shopify2.py       *)
(*       older variants of update_inventory_level                          *)
(*                                                                         *)
(* The remote catalog API is outside the repository: it is modelled by     *)
(* the answers the code distinguishes (status 200, 429, another status, a  *)
(* raised transport error) and by what its operations are named to do.     *)
(***************************************************************************)
EXTENDS Integers, Sequences, FiniteSets, TLC

(* ------------------------------ bounds --------------------------------- *)
\* Remote catalog: NumItems variants, one per page of a scan.
NumItems == 2
\* Quantities (remote on-hand and file rows) range over 0..MaxQty.
MaxQty == 1
\* Rows of the import file.
MaxRows == 2
\* The attempt counter of a retry loop saturates here (the loop itself has
\* no bound in the code).
MaxAttempts == 3
\* Script invocations in one behaviour.
MaxRuns == 2

(* ----------------------------- barcodes -------------------------------- *)
\* A barcode string is a number: 0 is None or "", PadBase is a string of
\* whitespace only, c in 1..(PadBase - 1) is a barcode without surrounding
\* whitespace and PadBase + c is the same barcode with whitespace around it.
\* PadBase bounds the number of distinct barcodes.
PadBase == 10

\* str.strip()
Strip(b) == b % PadBase

\* Python truthiness of `barcode and barcode.strip()`
NonBlank(b) == b # 0 /\ Strip(b) # 0

Items == 1..NumItems

\* The two identifier spaces of a remote variant k: variant['id'] and
\* variant['inventory_item_id'] (REST) / inventoryItem.id (GraphQL).
VariantId(k) == k
InventoryItemId(k) == NumItems + k

Min(a, b) == IF a < b THEN a ELSE b

(* ------------------------- the remote catalog -------------------------- *)
\* "Set absolute on-hand quantity" (inventorySetOnHandQuantities): the item
\* whose inventory-item identifier is id gets quantity q; an identifier that
\* names no inventory item changes nothing.
RemoteSetOnHand(qty, id, q) ==
    [k \in Items |-> IF InventoryItemId(k) = id THEN q ELSE qty[k]]

\* "Adjust quantity" (inventoryAdjustQuantity, inventory_levels/adjust.json):
\* the item's quantity changes by d.
RemoteAdjust(qty, id, d) ==
    [k \in Items |-> IF InventoryItemId(k) = id THEN qty[k] + d ELSE qty[k]]

VARIABLES
    script,           \* which program is running: "import", "compare", "mutate"
    pc,               \* its control point
    runNo,            \* invocations started so far
    catalog,          \* remote variants: [k \in Items |-> [barcode, avail]]
    remoteQty,        \* remote on-hand quantity of each variant's inventory item
    cacheFile,        \* inventory_cache.json: barcode -> identifier
    inputFile,        \* the file at INVENTORY_CSV_PATH: [exists, rows]
    processedDir,     \* PROCESSED_PATH: set of files [prefix, rows]
    inventory_cache,  \* update_inventory_cache: the dict in memory
    page,             \* the page the scan is at (the pages before it were fetched)
    has_changes,      \* update_inventory_cache: has_changes
    scanFailed,       \* this run's scan broke off on a non-success status
    inventory_data,   \* update_inventory_from_csv: the rows read
    rowIdx,           \* the row (import) or missing item (compare) being applied
    missing_barcodes, \* update_inventory_from_csv: missing_barcodes
    attempts,         \* throttled requests of the current call of the mutator
    mutated,          \* this run sent at least one mutation request
    failed,           \* this run printed a failure for one of its corrections
    reqTick,          \* flips with every repeated request (a retry is a step)
    report,           \* this run's report artifact: [written, rows]
    notified,         \* this run's notification: "none", "processed", "error"
    whitelistFile,    \* compare-shopify-to-400-inventory-whitelist.txt: [exists, rows]
    whitelisted_upcs, \* compare: the set load_whitelist returned
    inventory_file_path, \* compare: the file get_latest_inventory_file chose
    shopify_inventory,   \* compare: what get_all_shopify_barcodes collected
    missing_inventory,   \* compare: main's missing_inventory
    ignored_whitelist,   \* compare: main's ignored_whitelist
    zeroCalls,        \* compare: the items set_inventory_to_zero was called for
    inventory_item_id, \* the inventory-item identifier a mutation is sent for
    variant,          \* mutate: the script whose update_inventory_level is called
    quantity,         \* mutate: the quantity passed to update_inventory_level
    available_quantity, \* mutate: inventory-import-to-shopify2's reading of the level
    outcomes,         \* mutate: how each call so far ended
    afterFirst,       \* mutate: the item's remote quantity when the first call returned
    sentDelta,        \* mutate: a mutation that adjusts by a delta was sent
    lastAnswer,       \* mutate: the answer to the last request of the current call
    retries           \* mutate: 429 answers the call that returned last had got

VARIABLES
    cacheBefore,      \* refresh: inventory_cache.json as it was when the refresh began
    saved,            \* refresh: this refresh called save_cache
    prevCompleted,    \* refresh: the refresh before this one fetched every page
    procPc,           \* overlap: the control point of each of the two processes
    procData,         \* overlap: the rows each process read
    procIdx,          \* overlap: the row each process is at
    appliedBy,        \* overlap: <<process, row>> for the mutations sent
    moved,            \* overlap: the processes that called shutil.move
    points_available, \* bucket: the module global of import-costs-shopify.py
    last_request_time,\* bucket: the module global, in units of the clock
    now,              \* bucket: time.time(), in units of the clock
    admitted,         \* bucket: the cost of the requests let through so far
    calls,            \* bucket: the calls of check_rate_limit so far
    workerPc,         \* bucket: the statement each worker is at
    time_passed,      \* bucket: the local of each worker
    wakeAt,           \* bucket: the time each sleeping worker wakes
    rawLines,         \* parse: the lines of the input file when the run began
    barcodesRead,     \* parse: what get_inventory_barcodes returned
    eligible,         \* export: the fetched orders that pass the filters
    orderIdx,         \* export: the order a loop is at
    orders_to_tag,    \* export: fetch_and_export_orders' orders_to_tag
    tagged,           \* export: the orders a tagsAdd mutation was sent for
    smbStored,        \* export: the SMB file was stored
    localWritten,     \* export: the local CSV was written
    costInput,        \* costs: the style-colors of the rows of INPUT_FILE
    progressFile,     \* costs: the rows of PROGRESS_FILE
    processed_skus,   \* costs: what load_processed_skus returned to this run
    current_run_processed_skus, \* costs: the module global of that name
    costUpdates       \* costs: the cost updates sent: [run, sku]

remoteVars == <<catalog, remoteQty>>
fsVars == <<cacheFile, inputFile, processedDir>>
scanVars == <<inventory_cache, page, has_changes, scanFailed>>
applyVars == <<inventory_data, rowIdx, missing_barcodes, attempts, mutated, failed,
              reqTick>>
auditVars == <<report, notified>>
compareVars == <<whitelistFile, whitelisted_upcs, inventory_file_path, shopify_inventory,
                missing_inventory, ignored_whitelist, zeroCalls, inventory_item_id>>
mutateVars == <<variant, quantity, available_quantity, outcomes, afterFirst, sentDelta,
               lastAnswer, retries>>
refreshVars == <<cacheBefore, saved, prevCompleted>>
overlapVars == <<procPc, procData, procIdx, appliedBy, moved>>
bucketVars == <<points_available, last_request_time, now, admitted, calls, workerPc,
                time_passed, wakeAt>>
parseVars == <<rawLines, barcodesRead>>
exportVars == <<eligible, orderIdx, orders_to_tag, tagged, smbStored, localWritten>>
costVars == <<costInput, progressFile, processed_skus, current_run_processed_skus,
              costUpdates>>
lateVars == <<parseVars, exportVars, costVars>>
harnessVars == <<refreshVars, overlapVars, bucketVars, lateVars>>
vars == <<script, pc, runNo, remoteVars, fsVars, scanVars, applyVars, auditVars,
         compareVars, mutateVars, harnessVars>>

(* ------------------------------ files ---------------------------------- *)
NoFile == [exists |-> FALSE, rows |-> <<>>]
File(rows) == [exists |-> TRUE, rows |-> rows]
NoReport == [written |-> FALSE, rows |-> <<>>]

\* load_cache of a missing file: {}
EmptyCache == [b \in {} |-> 0]

\* The cache update-inventory-cache.py leaves for catalog c: every non-blank
\* barcode maps to the inventory_item_id of the last variant carrying it.
LastWith(c, b) == CHOOSE k \in Items :
    /\ c[k].barcode = b
    /\ \A j \in Items : c[j].barcode = b => j <= k
ItemIdCache(c) ==
    [b \in {c[k].barcode : k \in {j \in Items : NonBlank(c[j].barcode)}} |->
        InventoryItemId(LastWith(c, b))]

(* ---------------- import-inventory-to-shopify.py ----------------------- *)
\* The identifier update_inventory_cache stores for variant k.
CachedIdOf(k) == VariantId(k)

\* The loop body that keeps the first identifier seen for a barcode.
cache_variant_first_wins(cache, b, id) ==
    IF NonBlank(b) /\ b \notin DOMAIN cache
    THEN [x \in DOMAIN cache \cup {b} |-> IF x = b THEN id ELSE cache[x]]
    ELSE cache

\* The body of the variant loop: one variant with barcode b and identifier id.
cache_variant(cache, b, id) ==
    IF NonBlank(b) /\ (b \notin DOMAIN cache \/ cache[b] # id)
    THEN [x \in DOMAIN cache \cup {b} |-> IF x = b THEN id ELSE cache[x]]
    ELSE cache

\* find_inventory_item_id: the cached identifier, 0 for None.
find_inventory_item_id(cache, barcode) ==
    IF barcode \in DOMAIN cache THEN cache[barcode] ELSE 0

\* What the mutation of update_inventory_level asks of the remote.
update_inventory_level_effect(qty, id, q) == RemoteSetOnHand(qty, id, q)

\* A move that leaves the source in place (a copy).
move_input_copy(f) == f

\* shutil.move(inventory_csv_path, final_processed_path)
ArchivedName(f, t) == [prefix |-> "processed", ctime |-> t, rows |-> f.rows]
move_input(f) == NoFile

ResetRun ==
    /\ inventory_data' = <<>>
    /\ rowIdx' = 0
    /\ missing_barcodes' = <<>>
    /\ attempts' = 0
    /\ mutated' = FALSE
    /\ failed' = FALSE
    /\ report' = NoReport
    /\ notified' = "none"
    /\ scanFailed' = FALSE

\* The script is invoked: update_inventory_cache() begins.
ImportStart ==
    /\ script = "import"
    /\ UNCHANGED <<mutateVars, harnessVars>>
    /\ pc \in {"idle", "done", "crashed"}
    /\ runNo < MaxRuns
    /\ runNo' = runNo + 1
    /\ pc' = "scan"
    /\ inventory_cache' = cacheFile
    /\ page' = 1
    /\ has_changes' = FALSE
    /\ ResetRun
    /\ UNCHANGED <<script, remoteVars, fsVars, reqTick, compareVars>>

\* The end of update_inventory_cache: save when something changed.
EndScan(cache, changed) ==
    /\ cacheFile' = IF changed THEN cache ELSE cacheFile
    /\ inventory_cache' = EmptyCache
    /\ page' = 0
    /\ has_changes' = FALSE
    /\ pc' = "csv"

\* One page request of update_inventory_cache.
ImportScanPage ==
    /\ script = "import"
    /\ UNCHANGED <<mutateVars, harnessVars>>
    /\ pc = "scan"
    /\ \E resp \in {"ok", "throttled", "error", "raise"} :
        CASE resp = "ok" ->
            LET cache == cache_variant(inventory_cache, catalog[page].barcode,
                                       CachedIdOf(page))
                changed == has_changes \/ cache # inventory_cache
            IN  /\ IF page < NumItems
                   THEN /\ inventory_cache' = cache
                        /\ has_changes' = changed
                        /\ page' = page + 1
                        /\ UNCHANGED <<pc, cacheFile>>
                   ELSE EndScan(cache, changed)
                /\ reqTick' = FALSE
                /\ UNCHANGED scanFailed
          [] resp = "throttled" ->
            \* status 429: the loop asks for the same page again
            /\ reqTick' = ~reqTick
            /\ UNCHANGED <<pc, cacheFile, scanVars>>
          [] resp = "error" ->
            /\ scanFailed' = TRUE
            /\ EndScan(inventory_cache, has_changes)
            /\ reqTick' = FALSE
          [] resp = "raise" ->
            \* requests.get raises at module level: the script dies
            /\ pc' = "crashed"
            /\ reqTick' = FALSE
            /\ UNCHANGED <<cacheFile, scanVars>>
    /\ UNCHANGED <<script, runNo, remoteVars, inputFile, processedDir, auditVars>>
    /\ UNCHANGED <<inventory_data, rowIdx, missing_barcodes, attempts, mutated, failed>>
    /\ UNCHANGED compareVars

\* update_inventory_from_csv up to the row loop.
ImportCsvStart ==
    /\ script = "import"
    /\ UNCHANGED <<mutateVars, harnessVars>>
    /\ pc = "csv"
    /\ IF ~inputFile.exists
       THEN /\ pc' = "done"
            /\ UNCHANGED <<inventory_data, rowIdx>>
       ELSE \E location_id \in BOOLEAN :
            IF ~location_id
            THEN /\ pc' = "done"
                 /\ UNCHANGED <<inventory_data, rowIdx>>
            ELSE /\ inventory_data' = inputFile.rows
                 /\ rowIdx' = 1
                 /\ pc' = "rows"
    /\ UNCHANGED <<script, runNo, remoteVars, fsVars, scanVars, auditVars>>
    /\ UNCHANGED <<missing_barcodes, attempts, mutated, failed, reqTick, compareVars>>

\* One iteration of the row loop up to the call of update_inventory_level.
ImportRow ==
    /\ script = "import"
    /\ UNCHANGED <<mutateVars, harnessVars>>
    /\ pc = "rows"
    /\ rowIdx <= Len(inventory_data)
    /\ LET row == inventory_data[rowIdx]
           item_id == find_inventory_item_id(cacheFile, row.barcode)
       IN  IF item_id # 0
           THEN /\ pc' = "mutate"
                /\ attempts' = 0
                /\ UNCHANGED <<rowIdx, missing_barcodes>>
           ELSE /\ missing_barcodes' = Append(missing_barcodes, row.barcode)
                /\ rowIdx' = rowIdx + 1
                /\ UNCHANGED <<pc, attempts>>
    /\ UNCHANGED <<script, runNo, remoteVars, fsVars, scanVars, auditVars>>
    /\ UNCHANGED <<inventory_data, mutated, failed, reqTick, compareVars>>

\* One request of update_inventory_level's while True loop.
ImportMutate ==
    /\ script = "import"
    /\ UNCHANGED <<mutateVars, harnessVars>>
    /\ pc = "mutate"
    /\ mutated' = TRUE
    /\ LET row == inventory_data[rowIdx]
           id == find_inventory_item_id(cacheFile, row.barcode)
       IN \E resp \in {"ok", "rejected", "throttled", "error", "raise"} :
        CASE resp = "ok" ->
            \* 200, and the remote did what was asked
            /\ remoteQty' = update_inventory_level_effect(remoteQty, id, row.quantity)
            /\ rowIdx' = rowIdx + 1
            /\ pc' = "rows"
            /\ attempts' = 0
            /\ reqTick' = FALSE
            /\ UNCHANGED <<failed, notified>>
          [] resp = "rejected" ->
            \* 200 with errors in the body: the code reads the status only
            /\ rowIdx' = rowIdx + 1
            /\ pc' = "rows"
            /\ attempts' = 0
            /\ reqTick' = FALSE
            /\ UNCHANGED <<remoteQty, failed, notified>>
          [] resp = "throttled" ->
            \* 429: sleep and send the same mutation again
            /\ attempts' = Min(attempts + 1, MaxAttempts)
            /\ reqTick' = ~reqTick
            /\ UNCHANGED <<remoteQty, rowIdx, pc, failed, notified>>
          [] resp = "error" ->
            /\ failed' = TRUE
            /\ rowIdx' = rowIdx + 1
            /\ pc' = "rows"
            /\ attempts' = 0
            /\ reqTick' = FALSE
            /\ UNCHANGED <<remoteQty, notified>>
          [] resp = "raise" ->
            \* requests.post raises: caught by the except of
            \* update_inventory_from_csv, which sends the error mail
            /\ notified' = "error"
            /\ pc' = "done"
            /\ attempts' = 0
            /\ reqTick' = FALSE
            /\ UNCHANGED <<remoteQty, rowIdx, failed>>
    /\ UNCHANGED <<script, runNo, catalog, fsVars, scanVars, report>>
    /\ UNCHANGED <<inventory_data, missing_barcodes, compareVars>>

\* The step after the loop that goes on to the move with no file written.
ImportReport_unwritten ==
    /\ script = "import"
    /\ pc = "rows"
    /\ rowIdx > Len(inventory_data)
    /\ pc' = "archive"
    /\ UNCHANGED <<script, runNo, remoteVars, fsVars, scanVars, applyVars, auditVars>>
    /\ UNCHANGED <<compareVars, mutateVars, harnessVars>>

\* After the loop: the missing-barcodes file, written when there are any.
ImportReport ==
    /\ script = "import"
    /\ UNCHANGED <<mutateVars, harnessVars>>
    /\ pc = "rows"
    /\ rowIdx > Len(inventory_data)
    /\ report' = IF missing_barcodes # <<>>
                 THEN [written |-> TRUE, rows |-> missing_barcodes]
                 ELSE report
    /\ pc' = "archive"
    /\ UNCHANGED <<script, runNo, remoteVars, fsVars, scanVars, applyVars, notified>>
    /\ UNCHANGED compareVars

\* The input file is moved to the processed directory and the mail is sent.
ImportArchive ==
    /\ script = "import"
    /\ UNCHANGED <<mutateVars, harnessVars>>
    /\ pc = "archive"
    /\ IF inputFile.exists
       THEN /\ processedDir' = processedDir \cup {ArchivedName(inputFile, runNo)}
            /\ inputFile' = move_input(inputFile)
            /\ notified' = "processed"
       ELSE UNCHANGED <<processedDir, inputFile, notified>>
    /\ pc' = "done"
    /\ UNCHANGED <<script, runNo, remoteVars, cacheFile, scanVars, applyVars, report>>
    /\ UNCHANGED compareVars

\* The quantities of file rows and of the scanned catalog: none, or some.
Quantities == {0, MaxQty}

(* Rows of an input file: barcode of a remote variant or of none. *)
FileBarcodes == 1..(NumItems + 1)
Rows == [barcode : FileBarcodes, quantity : Quantities]
RowSeqs(n) == UNION {[1..m -> Rows] : m \in 1..n}

\* The two processes of import-inventory-to-shopify.py started on one path.
Runs == {"first", "second"}

\* The capacity and the refill rate of the bucket of import-costs-shopify.py.
POINTS_PER_SECOND == 100

\* check_rate_limit(10), at both call sites.
QUERY_COST == 10

\* The two callers of check_rate_limit.
Workers == {"w1", "w2"}

InitCommon ==
    /\ pc = "idle"
    /\ runNo = 0
    /\ inventory_cache = EmptyCache
    /\ page = 0
    /\ has_changes = FALSE
    /\ scanFailed = FALSE
    /\ inventory_data = <<>>
    /\ rowIdx = 0
    /\ missing_barcodes = <<>>
    /\ attempts = 0
    /\ mutated = FALSE
    /\ failed = FALSE
    /\ reqTick = FALSE
    /\ report = NoReport
    /\ notified = "none"
    /\ whitelisted_upcs = {}
    /\ inventory_file_path = NoFile
    /\ shopify_inventory = <<>>
    /\ missing_inventory = <<>>
    /\ ignored_whitelist = <<>>
    /\ zeroCalls = <<>>
    /\ cacheBefore = EmptyCache
    /\ saved = FALSE
    /\ prevCompleted = FALSE
    /\ procPc = [p \in Runs |-> "idle"]
    /\ procData = [p \in Runs |-> <<>>]
    /\ procIdx = [p \in Runs |-> 0]
    /\ appliedBy = {}
    /\ moved = {}
    /\ points_available = POINTS_PER_SECOND
    /\ last_request_time = 0
    /\ now = 0
    /\ admitted = 0
    /\ calls = 0
    /\ workerPc = [w \in Workers |-> "idle"]
    /\ time_passed = [w \in Workers |-> 0]
    /\ wakeAt = [w \in Workers |-> 0]
    /\ rawLines = <<>>
    /\ barcodesRead = {}
    /\ eligible = {}
    /\ orderIdx = 0
    /\ orders_to_tag = <<>>
    /\ tagged = <<>>
    /\ smbStored = FALSE
    /\ localWritten = FALSE
    /\ costInput = <<>>
    /\ progressFile = <<>>
    /\ processed_skus = {}
    /\ current_run_processed_skus = {}
    /\ costUpdates = <<>>

InitNoMutate ==
    /\ inventory_item_id = 0
    /\ variant = "none"
    /\ quantity = 0
    /\ available_quantity = 0
    /\ outcomes = <<>>
    /\ afterFirst = 0
    /\ sentDelta = FALSE
    /\ lastAnswer = "none"
    /\ retries = 0

\* The catalog of the import runs: variant k carries barcode k.
PlainCatalog == [k \in Items |-> [barcode |-> k, avail |-> TRUE]]

InitImport ==
    /\ script = "import"
    /\ catalog = PlainCatalog
    /\ remoteQty = [k \in Items |-> 0]
    /\ cacheFile \in {EmptyCache, ItemIdCache(PlainCatalog)}
    /\ inputFile \in {NoFile} \cup {File(r) : r \in RowSeqs(MaxRows)}
    /\ whitelistFile = NoFile
    /\ processedDir = {}
    /\ InitCommon
    /\ InitNoMutate

NextImport ==
    \/ ImportStart
    \/ ImportScanPage
    \/ ImportCsvStart
    \/ ImportRow
    \/ ImportMutate
    \/ ImportReport
    \/ ImportArchive

SpecImport == InitImport /\ [][NextImport]_vars
FairImport == SpecImport /\ WF_vars(NextImport)

(* ------------- compare-shopify-to-400-inventory.py --------------------- *)
\* load_whitelist: the stripped non-blank lines of the whitelist file.
load_whitelist(file) ==
    {Strip(file.rows[i]) : i \in {j \in DOMAIN file.rows : Strip(file.rows[j]) # 0}}

\* glob(processed_path/ciwdsvcp-*.csv)
GlobInventoryFiles(dir) == {f \in dir : f.prefix = "ciwdsvcp"}

\* get_latest_inventory_file: the match with the greatest ctime, or None.
get_latest_inventory_file(dir) ==
    LET files == GlobInventoryFiles(dir)
    IN  IF files = {} THEN NoFile
        ELSE File((CHOOSE f \in files : \A g \in files : g.ctime <= f.ctime).rows)

\* get_inventory_barcodes: the stripped first column of every row.
get_inventory_barcodes(file) == {Strip(file.rows[i]) : i \in DOMAIN file.rows}

\* The test without availableForSale.
InStock_any_availability(barcode, inventory_quantity, available_for_sale) ==
    NonBlank(barcode) /\ inventory_quantity > 0

\* get_all_shopify_barcodes, the test of one variant.
InStock(barcode, inventory_quantity, available_for_sale) ==
    NonBlank(barcode) /\ inventory_quantity > 0 /\ available_for_sale

\* get_all_shopify_barcodes, one variant k with quantity q.
collect_variant(inv, c, k, q) ==
    IF InStock(c[k].barcode, q, c[k].avail)
    THEN Append(inv, [sku |-> k, barcode |-> c[k].barcode, inventory_quantity |-> q])
    ELSE inv

\* The filter without the whitelist test.
IsMissing_no_whitelist(item, inventory_barcodes, whitelist) ==
    item.barcode \notin inventory_barcodes

\* main: the two lists of the filter loop.
IsMissing(item, inventory_barcodes, whitelist) ==
    item.barcode \notin inventory_barcodes /\ item.barcode \notin whitelist
IsIgnored(item, inventory_barcodes, whitelist) ==
    item.barcode \notin inventory_barcodes /\ item.barcode \in whitelist

\* main: the filter loop, list by list.
missing_inventory_of(seq, inventory_barcodes, whitelist) ==
    LET Keep(item) == IsMissing(item, inventory_barcodes, whitelist)
    IN  SelectSeq(seq, Keep)
ignored_whitelist_of(seq, inventory_barcodes, whitelist) ==
    LET Keep(item) == IsIgnored(item, inventory_barcodes, whitelist)
    IN  SelectSeq(seq, Keep)

\* Rows written with the first one taken for the header.
missing_report_rows_less_header(missing) ==
    IF missing = <<>> THEN missing ELSE Tail(missing)

\* The rows main writes under the header of missing_inventory-<ts>.csv.
missing_report_rows(missing) == missing

\* The script is invoked: module level up to main().
CompareStart ==
    /\ script = "compare"
    /\ UNCHANGED <<mutateVars, harnessVars>>
    /\ pc = "idle"
    /\ runNo' = runNo + 1
    /\ whitelistFile' = IF whitelistFile.exists THEN whitelistFile ELSE File(<<>>)
    /\ whitelisted_upcs' = load_whitelist(whitelistFile)
    /\ inventory_file_path' = get_latest_inventory_file(processedDir)
    /\ pc' = IF get_latest_inventory_file(processedDir).exists THEN "cscan" ELSE "done"
    /\ page' = IF get_latest_inventory_file(processedDir).exists THEN 1 ELSE 0
    /\ shopify_inventory' = <<>>
    /\ missing_inventory' = <<>>
    /\ ignored_whitelist' = <<>>
    /\ zeroCalls' = <<>>
    /\ inventory_item_id' = 0
    /\ ResetRun
    /\ UNCHANGED <<script, remoteVars, fsVars, inventory_cache, has_changes, reqTick>>

\* One page request of get_all_shopify_barcodes.
CompareScanPage ==
    /\ script = "compare"
    /\ UNCHANGED <<mutateVars, harnessVars>>
    /\ pc = "cscan"
    /\ \E resp \in {"ok", "error", "raise"} :
        CASE resp = "ok" ->
            /\ shopify_inventory' =
                   collect_variant(shopify_inventory, catalog, page, remoteQty[page])
            /\ page' = page + 1
            /\ pc' = IF page < NumItems THEN pc ELSE "creconcile"
            /\ UNCHANGED scanFailed
          [] resp = "error" ->
            \* any status but 200, 429 too: break, and return what was collected
            /\ scanFailed' = TRUE
            /\ pc' = "creconcile"
            /\ UNCHANGED <<page, shopify_inventory>>
          [] resp = "raise" ->
            /\ pc' = "crashed"
            /\ UNCHANGED <<page, scanFailed, shopify_inventory>>
    /\ UNCHANGED <<script, runNo, remoteVars, fsVars, inventory_cache, has_changes>>
    /\ UNCHANGED <<applyVars, auditVars, whitelistFile, whitelisted_upcs>>
    /\ UNCHANGED <<inventory_file_path, missing_inventory, ignored_whitelist, zeroCalls,
                   inventory_item_id>>

\* main: read the inventory file and sort the collected items into the lists.
CompareReconcile ==
    /\ script = "compare"
    /\ UNCHANGED <<mutateVars, harnessVars>>
    /\ pc = "creconcile"
    /\ LET inventory_barcodes == get_inventory_barcodes(inventory_file_path)
       IN  /\ missing_inventory' =
                  missing_inventory_of(shopify_inventory, inventory_barcodes,
                                       whitelisted_upcs)
           /\ ignored_whitelist' =
                  ignored_whitelist_of(shopify_inventory, inventory_barcodes,
                                       whitelisted_upcs)
    /\ pc' = "creport"
    /\ UNCHANGED <<script, runNo, remoteVars, fsVars, scanVars, applyVars, auditVars>>
    /\ UNCHANGED <<whitelistFile, whitelisted_upcs, inventory_file_path, shopify_inventory,
                   zeroCalls, inventory_item_id>>

\* A report step that writes the file only when an item is missing.
CompareReport_only_if_missing ==
    /\ script = "compare"
    /\ UNCHANGED <<mutateVars, harnessVars>>
    /\ pc = "creport"
    /\ report' = IF missing_inventory = <<>>
                 THEN report
                 ELSE [written |-> TRUE, rows |-> missing_report_rows(missing_inventory)]
    /\ rowIdx' = 1
    /\ pc' = "czero"
    /\ UNCHANGED <<script, runNo, remoteVars, fsVars, scanVars, notified, compareVars>>
    /\ UNCHANGED <<inventory_data, missing_barcodes, attempts, mutated, failed, reqTick>>

\* main: write missing_inventory-<ts>.csv, header first.
CompareReport ==
    /\ script = "compare"
    /\ UNCHANGED <<mutateVars, harnessVars>>
    /\ pc = "creport"
    /\ report' = [written |-> TRUE, rows |-> missing_report_rows(missing_inventory)]
    /\ rowIdx' = 1
    /\ pc' = "czero"
    /\ UNCHANGED <<script, runNo, remoteVars, fsVars, scanVars, notified, compareVars>>
    /\ UNCHANGED <<inventory_data, missing_barcodes, attempts, mutated, failed, reqTick>>

\* set_inventory_to_zero, the identifier query (productVariants(first: 1)).
CompareZeroLookup ==
    /\ script = "compare"
    /\ UNCHANGED <<mutateVars, harnessVars>>
    /\ pc = "czero"
    /\ rowIdx <= Len(missing_inventory)
    /\ zeroCalls' = Append(zeroCalls, missing_inventory[rowIdx])
    /\ \E resp \in {"found", "empty", "error", "raise"} :
        CASE resp = "found" ->
            \* the first variant the remote finds for the barcode
            /\ \E k \in Items :
                /\ catalog[k].barcode = missing_inventory[rowIdx].barcode
                /\ inventory_item_id' = InventoryItemId(k)
            /\ pc' = "czeroMutate"
            /\ UNCHANGED <<rowIdx, failed>>
          [] resp = "empty" ->
            \* no edge: "No inventory item found" is printed
            /\ failed' = TRUE
            /\ rowIdx' = rowIdx + 1
            /\ UNCHANGED <<pc, inventory_item_id>>
          [] resp = "error" ->
            /\ failed' = TRUE
            /\ rowIdx' = rowIdx + 1
            /\ UNCHANGED <<pc, inventory_item_id>>
          [] resp = "raise" ->
            \* nothing catches it: main dies
            /\ pc' = "crashed"
            /\ UNCHANGED <<rowIdx, inventory_item_id, failed>>
    /\ UNCHANGED <<script, runNo, remoteVars, fsVars, scanVars, auditVars>>
    /\ UNCHANGED <<inventory_data, missing_barcodes, attempts, mutated, reqTick>>
    /\ UNCHANGED <<whitelistFile, whitelisted_upcs, inventory_file_path, shopify_inventory,
                   missing_inventory, ignored_whitelist>>

\* set_inventory_to_zero, the inventorySetOnHandQuantities mutation.
CompareZeroMutate ==
    /\ script = "compare"
    /\ UNCHANGED <<mutateVars, harnessVars>>
    /\ pc = "czeroMutate"
    /\ mutated' = TRUE
    /\ inventory_item_id' = 0
    /\ \E resp \in {"ok", "rejected", "error", "raise"} :
        CASE resp = "ok" ->
            /\ remoteQty' = RemoteSetOnHand(remoteQty, inventory_item_id, 0)
            /\ rowIdx' = rowIdx + 1
            /\ pc' = "czero"
            /\ UNCHANGED failed
          [] resp = "rejected" ->
            \* 200 with userErrors: printed
            /\ failed' = TRUE
            /\ rowIdx' = rowIdx + 1
            /\ pc' = "czero"
            /\ UNCHANGED remoteQty
          [] resp = "error" ->
            \* any status but 200, 429 too: printed, no retry
            /\ failed' = TRUE
            /\ rowIdx' = rowIdx + 1
            /\ pc' = "czero"
            /\ UNCHANGED remoteQty
          [] resp = "raise" ->
            /\ pc' = "crashed"
            /\ UNCHANGED <<remoteQty, rowIdx, failed>>
    /\ UNCHANGED <<script, runNo, catalog, fsVars, scanVars, auditVars>>
    /\ UNCHANGED <<inventory_data, missing_barcodes, attempts, reqTick>>
    /\ UNCHANGED <<whitelistFile, whitelisted_upcs, inventory_file_path, shopify_inventory,
                   missing_inventory, ignored_whitelist, zeroCalls>>

\* main: the report mail, after the last item.
CompareEmail ==
    /\ script = "compare"
    /\ UNCHANGED <<mutateVars, harnessVars>>
    /\ pc = "czero"
    /\ rowIdx > Len(missing_inventory)
    /\ notified' = "processed"
    /\ pc' = "done"
    /\ UNCHANGED <<script, runNo, remoteVars, fsVars, scanVars, applyVars, report>>
    /\ UNCHANGED compareVars

\* Barcodes of the remote variants of a compare run: none, in the file, on the
\* whitelist, in neither, in both, and whitelisted but for its whitespace.
CompareBarcodes == {0, 1, 2, 3, 4, PadBase + 2}
\* The latest inventory file: "1" and " 4 ".
InventoryRows == <<1, PadBase + 4>>
\* The whitelist file: "2", " 4 " and a blank line.
WhitelistRows == <<2, PadBase + 4, PadBase>>

InitCompare ==
    /\ script = "compare"
    /\ catalog \in [Items -> [barcode : CompareBarcodes, avail : BOOLEAN]]
    /\ remoteQty \in [Items -> Quantities]
    /\ cacheFile = EmptyCache
    /\ inputFile = NoFile
    /\ whitelistFile \in {NoFile, File(WhitelistRows)}
    /\ InitCommon
    /\ InitNoMutate
    /\ processedDir \in {{}, {[prefix |-> "ciwdsvcp", ctime |-> 0, rows |-> InventoryRows]}}

NextCompare ==
    \/ CompareStart
    \/ CompareScanPage
    \/ CompareReconcile
    \/ CompareReport
    \/ CompareZeroLookup
    \/ CompareZeroMutate
    \/ CompareEmail

SpecCompare == InitCompare /\ [][NextCompare]_vars

(* ------------- update_inventory_level, called twice -------------------- *)
\* The same correction (item inventory_item_id, target quantity) is applied
\* by two successive calls of one script's mutator.
Variants == {"import-inventory-to-shopify", "inventory-import-to-shopify",
             "inventory-import-to-shopify2", "compare-shopify-to-400-inventory"}

\* The variants whose update_inventory_level loops on status 429.
RetriesOn429(v) == v \in {"import-inventory-to-shopify", "inventory-import-to-shopify"}

\* A loop that sends the request again after every answer but 200.
SendsAgain_after_any_failure(v, resp) == resp \in {"throttled", "rejected", "error"}

\* A mutator that gives up on the first 429.
SendsAgain_never(v, resp) == FALSE

\* The answers after which the variant's mutator sends the same request again.
SendsAgain(v, resp) == resp = "throttled" /\ RetriesOn429(v)

\* What the variant's mutator prints for the last answer of a call: the
\* import scripts look at the status only, and a rejection comes with
\* status 200; set_inventory_to_zero reads userErrors.
Prints(v, resp) ==
    CASE resp = "ok" -> "Successfully"
      [] resp = "rejected" -> IF v = "compare-shopify-to-400-inventory"
                              THEN "User errors"
                              ELSE "Successfully"
      [] resp \in {"throttled", "error"} -> "Failed"
      [] OTHER -> "nothing"

\* The variants whose mutation is an adjustment.
SendsDelta(v) == v \in {"inventory-import-to-shopify", "inventory-import-to-shopify2"}

ItemOfId(id) == CHOOSE k \in Items : InventoryItemId(k) = id

\* inventory-import-to-shopify.py: inventoryAdjustQuantity with new_quantity.
adjust_quantity_effect(qty, id, new_quantity) == RemoteAdjust(qty, id, new_quantity)

\* inventory-import-to-shopify2.py: adjustment_quantity = new_quantity -
\* available_quantity, posted to inventory_levels/adjust.json.
adjust_level_effect(qty, id, new_quantity, available) ==
    RemoteAdjust(qty, id, new_quantity - available)

\* compare: set_inventory_to_zero's setQuantities entry.
set_inventory_to_zero_effect(qty, id) == RemoteSetOnHand(qty, id, 0)

\* What the variant's mutation does on the remote when it is accepted.
MutationEffect(v, qty, id, q, available) ==
    CASE v = "import-inventory-to-shopify" -> update_inventory_level_effect(qty, id, q)
      [] v = "inventory-import-to-shopify" -> adjust_quantity_effect(qty, id, q)
      [] v = "inventory-import-to-shopify2" -> adjust_level_effect(qty, id, q, available)
      [] v = "compare-shopify-to-400-inventory" -> set_inventory_to_zero_effect(qty, id)

\* The call returns (or raises) with outcome o.
MutateReturn(o) ==
    /\ outcomes' = Append(outcomes, o)
    /\ retries' = attempts
    /\ afterFirst' = IF outcomes = <<>>
                     THEN remoteQty'[ItemOfId(inventory_item_id)]
                     ELSE afterFirst
    /\ attempts' = 0
    /\ reqTick' = FALSE
    /\ pc' = "returned"

mutateFrame ==
    UNCHANGED <<script, runNo, catalog, fsVars, scanVars, auditVars, inventory_data,
                rowIdx, missing_barcodes, failed, whitelistFile, whitelisted_upcs,
                inventory_file_path, shopify_inventory, missing_inventory,
                ignored_whitelist, zeroCalls, inventory_item_id, variant, quantity,
                harnessVars>>

\* update_inventory_level(inventory_item_id, location_id, quantity) is called.
MutateCall ==
    /\ script = "mutate"
    /\ pc \in {"idle", "returned"}
    /\ Len(outcomes) < 2
    /\ pc' = IF variant = "inventory-import-to-shopify2" THEN "mread" ELSE "msend"
    /\ lastAnswer' = "none"
    /\ UNCHANGED <<remoteQty, attempts, mutated, reqTick, available_quantity, outcomes,
                   afterFirst, sentDelta, retries>>
    /\ mutateFrame

\* inventory-import-to-shopify2: GET inventory_levels.json.
MutateRead ==
    /\ script = "mutate"
    /\ pc = "mread"
    /\ UNCHANGED <<remoteQty, mutated, sentDelta, lastAnswer>>
    /\ \E resp \in {"ok", "error", "raise"} :
        CASE resp = "ok" ->
            /\ available_quantity' = remoteQty[ItemOfId(inventory_item_id)]
            /\ pc' = "msend"
            /\ UNCHANGED <<outcomes, afterFirst, attempts, reqTick, retries>>
          [] resp = "error" ->
            /\ MutateReturn("error")
            /\ UNCHANGED available_quantity
          [] resp = "raise" ->
            /\ MutateReturn("raise")
            /\ UNCHANGED available_quantity
    /\ mutateFrame

\* One mutation request.
MutateSend ==
    /\ script = "mutate"
    /\ pc = "msend"
    /\ mutated' = TRUE
    /\ sentDelta' = (sentDelta \/ SendsDelta(variant))
    /\ \E resp \in {"ok", "rejected", "throttled", "error", "raise"} :
        /\ lastAnswer' = resp
        /\ IF SendsAgain(variant, resp)
           THEN \* 429: sleep, then the same request again
                /\ attempts' = Min(attempts + 1, MaxAttempts)
                /\ reqTick' = ~reqTick
                /\ UNCHANGED <<remoteQty, pc, outcomes, afterFirst, retries>>
           ELSE CASE resp = "ok" ->
                    /\ remoteQty' = MutationEffect(variant, remoteQty, inventory_item_id,
                                                   quantity, available_quantity)
                    /\ MutateReturn("ok")
                  [] resp = "rejected" ->
                    /\ UNCHANGED remoteQty
                    /\ MutateReturn("rejected")
                  [] resp \in {"throttled", "error"} ->
                    \* a failed status, 429 too where the code has no loop
                    /\ UNCHANGED remoteQty
                    /\ MutateReturn("error")
                  [] resp = "raise" ->
                    /\ UNCHANGED remoteQty
                    /\ MutateReturn("raise")
    /\ UNCHANGED available_quantity
    /\ mutateFrame

InitMutate ==
    /\ script = "mutate"
    /\ catalog = PlainCatalog
    /\ remoteQty \in [Items -> 0..MaxQty]
    /\ cacheFile = EmptyCache
    /\ inputFile = NoFile
    /\ whitelistFile = NoFile
    /\ processedDir = {}
    /\ InitCommon
    /\ variant \in Variants
    /\ inventory_item_id \in {InventoryItemId(k) : k \in Items}
    /\ quantity \in IF variant = "compare-shopify-to-400-inventory"
                    THEN {0} ELSE 0..MaxQty
    /\ available_quantity = 0
    /\ outcomes = <<>>
    /\ afterFirst = 0
    /\ sentDelta = FALSE
    /\ lastAnswer = "none"
    /\ retries = 0

NextMutate ==
    \/ MutateCall
    \/ MutateRead
    \/ MutateSend

SpecMutate == InitMutate /\ [][NextMutate]_vars
FairMutate == SpecMutate /\ WF_vars(NextMutate)

\* The shop goes on selling while a mutator runs: between two requests of
\* update_inventory_level one unit of the item is sold.
RemoteSale ==
    /\ script = "mutate"
    /\ pc = "msend"
    /\ remoteQty[ItemOfId(inventory_item_id)] > 0
    /\ remoteQty' = RemoteAdjust(remoteQty, inventory_item_id, -1)
    /\ UNCHANGED <<pc, attempts, mutated, reqTick, available_quantity, outcomes,
                   afterFirst, sentDelta, lastAnswer, retries>>
    /\ mutateFrame

NextSale == NextMutate \/ RemoteSale

SpecSale == InitMutate /\ [][NextSale]_vars

(* ------------------ update_inventory_cache, refreshed ------------------ *)
\* The cache refresh of update-inventory-cache.py and of
\* import-inventory-to-shopify.py, run again and again against one catalog.
RefreshVariants == {"update-inventory-cache", "import-inventory-to-shopify"}

\* The identifier the variant's refresh stores for remote variant k.
StoredId(v, k) ==
    IF v = "update-inventory-cache" THEN InventoryItemId(k) ELSE CachedIdOf(k)

\* The refresh that asks for the same page again on status 429.
RefreshRetriesOn429(v) == v = "import-inventory-to-shopify"

\* Whether the answer names a next page: the Link header of the import
\* script follows the catalog; update-inventory-cache.py looks for a key
\* 'next' in the body, which the remote may or may not send.
NextPageChoices(v, p) ==
    IF p >= NumItems THEN {FALSE}
    ELSE IF v = "import-inventory-to-shopify" THEN {TRUE} ELSE {TRUE, FALSE}

\* The end of update_inventory_cache: save_cache when has_changes.
RefreshEnd(cache, changed) ==
    /\ cacheFile' = IF changed THEN cache ELSE cacheFile
    /\ saved' = changed
    /\ inventory_cache' = EmptyCache
    /\ has_changes' = FALSE
    /\ pc' = "rdone"

refreshFrame ==
    UNCHANGED <<script, runNo, remoteVars, inputFile, processedDir, inventory_data,
                rowIdx, missing_barcodes, attempts, mutated, failed, auditVars,
                compareVars, mutateVars, cacheBefore, prevCompleted, overlapVars,
                bucketVars, lateVars>>

\* update_inventory_cache() is called.
RefreshStart ==
    /\ script = "refresh"
    /\ pc \in {"idle", "rdone", "rcrashed"}
    /\ runNo < MaxRuns
    /\ runNo' = runNo + 1
    /\ pc' = "rscan"
    /\ cacheBefore' = cacheFile
    /\ prevCompleted' = (pc = "rdone" /\ ~scanFailed /\ page = NumItems + 1)
    /\ inventory_cache' = cacheFile
    /\ page' = 1
    /\ has_changes' = FALSE
    /\ scanFailed' = FALSE
    /\ saved' = FALSE
    /\ UNCHANGED <<script, remoteVars, fsVars, applyVars, auditVars, compareVars,
                   mutateVars, overlapVars, bucketVars, lateVars>>

\* One page request of update_inventory_cache, and what follows the loop
\* when the request ends it.
RefreshPage ==
    /\ script = "refresh"
    /\ pc = "rscan"
    /\ \E resp \in {"ok", "throttled", "error", "raise"} :
        CASE resp = "ok" ->
            LET cache == cache_variant(inventory_cache, catalog[page].barcode,
                                       StoredId(variant, page))
                changed == has_changes \/ cache # inventory_cache
            IN  \E more \in NextPageChoices(variant, page) :
                /\ page' = page + 1
                /\ IF more
                   THEN /\ inventory_cache' = cache
                        /\ has_changes' = changed
                        /\ UNCHANGED <<pc, cacheFile, saved>>
                   ELSE RefreshEnd(cache, changed)
                /\ reqTick' = FALSE
                /\ UNCHANGED scanFailed
          [] resp = "throttled" /\ RefreshRetriesOn429(variant) ->
            /\ reqTick' = ~reqTick
            /\ UNCHANGED <<pc, page, cacheFile, saved, inventory_cache, has_changes,
                           scanFailed>>
          [] resp \in {"throttled", "error"} /\ ~(resp = "throttled" /\ RefreshRetriesOn429(variant)) ->
            \* a failed status: print and break
            /\ scanFailed' = TRUE
            /\ RefreshEnd(inventory_cache, has_changes)
            /\ reqTick' = FALSE
            /\ UNCHANGED page
          [] resp = "raise" ->
            /\ pc' = "rcrashed"
            /\ inventory_cache' = EmptyCache
            /\ has_changes' = FALSE
            /\ reqTick' = FALSE
            /\ UNCHANGED <<page, cacheFile, saved, scanFailed>>
    /\ refreshFrame

\* Barcodes of the variants of a refreshed catalog: none, whitespace only,
\* two barcodes that variants may share.
RefreshBarcodes == {0, PadBase, 1, 2}

\* A cache file left by an earlier refresh of another catalog.
StaleCache == (1 :> InventoryItemId(1)) @@ (3 :> InventoryItemId(2))

InitRefresh ==
    /\ script = "refresh"
    /\ catalog \in [Items -> [barcode : RefreshBarcodes, avail : {TRUE}]]
    /\ remoteQty = [k \in Items |-> 0]
    /\ cacheFile \in {EmptyCache, StaleCache}
    /\ inputFile = NoFile
    /\ whitelistFile = NoFile
    /\ processedDir = {}
    /\ InitCommon
    /\ inventory_item_id = 0
    /\ variant \in RefreshVariants
    /\ quantity = 0
    /\ available_quantity = 0
    /\ outcomes = <<>>
    /\ afterFirst = 0
    /\ sentDelta = FALSE
    /\ lastAnswer = "none"
    /\ retries = 0

NextRefresh ==
    \/ RefreshStart
    \/ RefreshPage

SpecRefresh == InitRefresh /\ [][NextRefresh]_vars
FairRefresh == SpecRefresh /\ WF_vars(NextRefresh)

(* ------------- update_inventory_from_csv, started twice ---------------- *)
\* Two processes of import-inventory-to-shopify.py run update_inventory_from_csv
\* on the same INVENTORY_CSV_PATH. Nothing in the script keeps the second from
\* starting while the first is running: the steps of the two interleave
\* (Runs names the two processes).
\* The control points between reading the input file and leaving the move.
InsideRun == {"read", "rows", "move"}

overlapFrame ==
    UNCHANGED <<script, pc, runNo, catalog, cacheFile, scanVars, applyVars, auditVars,
                compareVars, mutateVars, refreshVars, bucketVars, lateVars>>

\* if not os.path.exists(inventory_csv_path): return
OverlapCheck(p) ==
    /\ script = "overlap"
    /\ procPc[p] = "idle"
    /\ procPc' = [procPc EXCEPT ![p] = IF inputFile.exists THEN "read" ELSE "done"]
    /\ UNCHANGED <<remoteQty, inputFile, processedDir, procData, procIdx, appliedBy,
                   moved>>
    /\ overlapFrame

\* pd.read_csv(inventory_csv_path), outside the try: a file moved away in
\* the meantime ends the process.
OverlapRead(p) ==
    /\ script = "overlap"
    /\ procPc[p] = "read"
    /\ IF inputFile.exists
       THEN /\ procData' = [procData EXCEPT ![p] = inputFile.rows]
            /\ procIdx' = [procIdx EXCEPT ![p] = 1]
            /\ procPc' = [procPc EXCEPT ![p] = "rows"]
       ELSE /\ procPc' = [procPc EXCEPT ![p] = "crashed"]
            /\ UNCHANGED <<procData, procIdx>>
    /\ UNCHANGED <<remoteQty, inputFile, processedDir, appliedBy, moved>>
    /\ overlapFrame

\* One row of the loop: find_inventory_item_id and update_inventory_level.
OverlapRow(p) ==
    /\ script = "overlap"
    /\ procPc[p] = "rows"
    /\ procIdx[p] <= Len(procData[p])
    /\ LET row == procData[p][procIdx[p]]
           id == find_inventory_item_id(cacheFile, row.barcode)
       IN  IF id # 0
           THEN \E resp \in {"ok", "error"} :
                /\ remoteQty' = IF resp = "ok"
                                THEN update_inventory_level_effect(remoteQty, id,
                                                                   row.quantity)
                                ELSE remoteQty
                /\ appliedBy' = appliedBy \cup {<<p, procIdx[p]>>}
           ELSE UNCHANGED <<remoteQty, appliedBy>>
    /\ procIdx' = [procIdx EXCEPT ![p] = procIdx[p] + 1]
    /\ UNCHANGED <<inputFile, processedDir, procPc, procData, moved>>
    /\ overlapFrame

\* After the loop: the missing-barcodes file, then
\* if os.path.exists(inventory_csv_path).
OverlapArchiveCheck(p) ==
    /\ script = "overlap"
    /\ procPc[p] = "rows"
    /\ procIdx[p] > Len(procData[p])
    /\ procPc' = [procPc EXCEPT ![p] = IF inputFile.exists THEN "move" ELSE "done"]
    /\ UNCHANGED <<remoteQty, inputFile, processedDir, procData, procIdx, appliedBy,
                   moved>>
    /\ overlapFrame

\* shutil.move(inventory_csv_path, final_processed_path): it raises when the
\* other process has moved the file since the test, and the except clause
\* sends the error mail.
OverlapMove(p) ==
    /\ script = "overlap"
    /\ procPc[p] = "move"
    /\ moved' = moved \cup {p}
    /\ IF inputFile.exists
       THEN /\ processedDir' = processedDir \cup
                   {ArchivedName(inputFile, Cardinality(processedDir) + 1)}
            /\ inputFile' = move_input(inputFile)
            /\ procPc' = [procPc EXCEPT ![p] = "done"]
       ELSE /\ procPc' = [procPc EXCEPT ![p] = "failed"]
            /\ UNCHANGED <<processedDir, inputFile>>
    /\ UNCHANGED <<remoteQty, procData, procIdx, appliedBy>>
    /\ overlapFrame

InitOverlap ==
    /\ script = "overlap"
    /\ catalog = PlainCatalog
    /\ remoteQty = [k \in Items |-> 0]
    /\ cacheFile = ItemIdCache(PlainCatalog)
    /\ inputFile \in {File(r) : r \in RowSeqs(MaxRows)}
    /\ whitelistFile = NoFile
    /\ processedDir = {}
    /\ InitCommon
    /\ InitNoMutate

NextOverlap ==
    \E p \in Runs :
        \/ OverlapCheck(p)
        \/ OverlapRead(p)
        \/ OverlapRow(p)
        \/ OverlapArchiveCheck(p)
        \/ OverlapMove(p)

SpecOverlap == InitOverlap /\ [][NextOverlap]_vars

(* ------------- check_rate_limit, called by two workers ----------------- *)
\* costing-files/import-costs-shopify.py keeps the budget in two module
\* globals, points_available and last_request_time, and check_rate_limit
\* reads and writes them without a lock. Two workers call it; a step of a
\* worker is one statement of the function, and the clock may advance between
\* any two steps. One unit of the clock is the time in which the bucket
\* refills the cost of one query (QUERY_COST / POINTS_PER_SECOND seconds).

\* The calls and the clock the model follows.
MaxCalls == 13
MaxTime == 2

\* time_passed * POINTS_PER_SECOND, for a time in units of the clock.
RefillOf(t) == t * QUERY_COST

\* (query_cost - points_available) / POINTS_PER_SECOND, in units of the clock.
wait_time(points) == (QUERY_COST - points) \div QUERY_COST

bucketFrame ==
    UNCHANGED <<script, pc, runNo, remoteVars, fsVars, scanVars, applyVars, auditVars,
                compareVars, mutateVars, refreshVars, overlapVars, lateVars>>

\* time.time() goes on while the workers run.
BucketTick ==
    /\ script = "bucket"
    /\ now < MaxTime
    /\ now' = now + 1
    /\ UNCHANGED <<points_available, last_request_time, admitted, calls, workerPc,
                   time_passed, wakeAt>>
    /\ bucketFrame

\* current_time = time.time(); time_passed = current_time - last_request_time
BucketEnter(w) ==
    /\ script = "bucket"
    /\ workerPc[w] = "idle"
    /\ calls < MaxCalls
    /\ calls' = calls + 1
    /\ time_passed' = [time_passed EXCEPT ![w] = now - last_request_time]
    /\ workerPc' = [workerPc EXCEPT ![w] = "refill"]
    /\ UNCHANGED <<points_available, last_request_time, now, admitted, wakeAt>>
    /\ bucketFrame

\* points_available = min(POINTS_PER_SECOND, points_available + time_passed * ...)
BucketRefill(w) ==
    /\ script = "bucket"
    /\ workerPc[w] = "refill"
    /\ points_available' = Min(POINTS_PER_SECOND,
                               points_available + RefillOf(time_passed[w]))
    /\ workerPc' = [workerPc EXCEPT ![w] = "test"]
    /\ UNCHANGED <<last_request_time, now, admitted, calls, time_passed, wakeAt>>
    /\ bucketFrame

\* if points_available < query_cost: wait_time = ...; time.sleep(wait_time)
BucketTest(w) ==
    /\ script = "bucket"
    /\ workerPc[w] = "test"
    /\ IF points_available < QUERY_COST
       THEN /\ wakeAt' = [wakeAt EXCEPT ![w] = now + wait_time(points_available)]
            /\ workerPc' = [workerPc EXCEPT ![w] = "sleep"]
       ELSE /\ workerPc' = [workerPc EXCEPT ![w] = "consume"]
            /\ UNCHANGED wakeAt
    /\ UNCHANGED <<points_available, last_request_time, now, admitted, calls,
                   time_passed>>
    /\ bucketFrame

\* time.sleep returns once the time asked for has passed.
BucketWake(w) ==
    /\ script = "bucket"
    /\ workerPc[w] = "sleep"
    /\ now >= wakeAt[w]
    /\ workerPc' = [workerPc EXCEPT ![w] = "consume"]
    /\ UNCHANGED <<points_available, last_request_time, now, admitted, calls,
                   time_passed, wakeAt>>
    /\ bucketFrame

\* points_available -= query_cost: from here on the request is sent.
BucketConsume(w) ==
    /\ script = "bucket"
    /\ workerPc[w] = "consume"
    /\ points_available' = points_available - QUERY_COST
    /\ admitted' = admitted + QUERY_COST
    /\ workerPc' = [workerPc EXCEPT ![w] = "stamp"]
    /\ UNCHANGED <<last_request_time, now, calls, time_passed, wakeAt>>
    /\ bucketFrame

\* last_request_time = time.time()
BucketStamp(w) ==
    /\ script = "bucket"
    /\ workerPc[w] = "stamp"
    /\ last_request_time' = now
    /\ workerPc' = [workerPc EXCEPT ![w] = "idle"]
    /\ UNCHANGED <<points_available, now, admitted, calls, time_passed, wakeAt>>
    /\ bucketFrame

InitBucket ==
    /\ script = "bucket"
    /\ catalog = PlainCatalog
    /\ remoteQty = [k \in Items |-> 0]
    /\ cacheFile = EmptyCache
    /\ inputFile = NoFile
    /\ whitelistFile = NoFile
    /\ processedDir = {}
    /\ InitCommon
    /\ InitNoMutate

NextBucket ==
    \/ BucketTick
    \/ \E w \in Workers :
        \/ BucketEnter(w)
        \/ BucketRefill(w)
        \/ BucketTest(w)
        \/ BucketWake(w)
        \/ BucketConsume(w)
        \/ BucketStamp(w)

SpecBucket == InitBucket /\ [][NextBucket]_vars

\* The script as it is: one caller, every call of check_rate_limit made by
\* the main thread.
MainThread == "w1"

NextOneCaller ==
    \/ BucketTick
    \/ BucketEnter(MainThread)
    \/ BucketRefill(MainThread)
    \/ BucketTest(MainThread)
    \/ BucketWake(MainThread)
    \/ BucketConsume(MainThread)
    \/ BucketStamp(MainThread)

SpecOneCaller == InitBucket /\ [][NextOneCaller]_vars

(* ------------------- input files with malformed lines ------------------ *)
\* What the two readers of the input file do with the lines of a file that
\* is not all well formed: pd.read_csv(path, header=None, dtype={0: str,
\* 1: int}) in update_inventory_from_csv, and the csv.reader loop of
\* get_inventory_barcodes. A line is a record [kind, barcode, quantity]:
\* "row" is barcode,quantity; "noqty" is a barcode with an empty quantity;
\* "text" is a barcode with a quantity that is no integer; "blank" is an
\* empty line.
MalformedKinds == {"noqty", "text"}

Lines ==
    [kind : {"row"}, barcode : FileBarcodes, quantity : Quantities]
    \cup [kind : MalformedKinds, barcode : FileBarcodes, quantity : {0}]
    \cup [kind : {"blank"}, barcode : {0}, quantity : {0}]

LineSeqs(n) == UNION {[1..m -> Lines] : m \in 1..n}

IsRow(line) == line.kind = "row"

\* The well-formed lines of a file, as rows.
WellFormed(lines) ==
    LET kept == SelectSeq(lines, IsRow)
    IN  [i \in DOMAIN kept |-> [barcode |-> kept[i].barcode,
                                quantity |-> kept[i].quantity]]

\* pd.read_csv drops blank lines; an empty or non-integer field of the int
\* column raises ValueError, and a file left with no line raises
\* EmptyDataError.
read_csv_raises(lines) ==
    \/ \E i \in DOMAIN lines : lines[i].kind \in MalformedKinds
    \/ WellFormed(lines) = <<>>

read_csv(lines) == WellFormed(lines)

\* csv.reader gives [] for an empty line, and row[0] raises IndexError.
get_inventory_barcodes_raises(lines) ==
    \E i \in DOMAIN lines : lines[i].kind = "blank"

barcodes_of_lines(lines) == {lines[i].barcode : i \in DOMAIN lines}

parseFrame ==
    UNCHANGED <<script, runNo, catalog, cacheFile, scanVars, attempts, failed, reqTick,
                auditVars, compareVars, mutateVars, refreshVars, overlapVars,
                bucketVars, exportVars, costVars>>

\* update_inventory_from_csv up to the row loop: the read is outside the try.
ParseRead ==
    /\ script = "parse"
    /\ pc = "idle"
    /\ inputFile.exists
    /\ rawLines' = inputFile.rows
    /\ IF read_csv_raises(inputFile.rows)
       THEN /\ pc' = "pcrashed"
            /\ UNCHANGED <<inventory_data, rowIdx>>
       ELSE /\ inventory_data' = read_csv(inputFile.rows)
            /\ rowIdx' = 1
            /\ pc' = "prows"
    /\ UNCHANGED <<remoteQty, inputFile, processedDir, missing_barcodes, mutated,
                   barcodesRead>>
    /\ parseFrame

\* One row of the loop of update_inventory_from_csv.
ParseRow ==
    /\ script = "parse"
    /\ pc = "prows"
    /\ rowIdx <= Len(inventory_data)
    /\ LET row == inventory_data[rowIdx]
           id == find_inventory_item_id(cacheFile, row.barcode)
       IN  IF id # 0
           THEN /\ \E resp \in {"ok", "error"} :
                    remoteQty' = IF resp = "ok"
                                 THEN update_inventory_level_effect(remoteQty, id,
                                                                    row.quantity)
                                 ELSE remoteQty
                /\ mutated' = TRUE
                /\ UNCHANGED missing_barcodes
           ELSE /\ missing_barcodes' = Append(missing_barcodes, row.barcode)
                /\ UNCHANGED <<remoteQty, mutated>>
    /\ rowIdx' = rowIdx + 1
    /\ UNCHANGED <<pc, inputFile, processedDir, inventory_data, rawLines,
                   barcodesRead>>
    /\ parseFrame

\* After the loop: the input file is moved to PROCESSED_PATH.
ParseArchive ==
    /\ script = "parse"
    /\ pc = "prows"
    /\ rowIdx > Len(inventory_data)
    /\ processedDir' = processedDir \cup {ArchivedName(inputFile, 1)}
    /\ inputFile' = move_input(inputFile)
    /\ pc' = "pdone"
    /\ UNCHANGED <<remoteQty, inventory_data, rowIdx, missing_barcodes, mutated,
                   rawLines, barcodesRead>>
    /\ parseFrame

\* get_inventory_barcodes of the compare script, on the same lines.
ParseBarcodes ==
    /\ script = "parse"
    /\ pc = "idle"
    /\ inputFile.exists
    /\ rawLines' = inputFile.rows
    /\ IF get_inventory_barcodes_raises(inputFile.rows)
       THEN /\ pc' = "bcrashed"
            /\ UNCHANGED barcodesRead
       ELSE /\ pc' = "bdone"
            /\ barcodesRead' = barcodes_of_lines(inputFile.rows)
    /\ UNCHANGED <<remoteQty, inputFile, processedDir, inventory_data, rowIdx,
                   missing_barcodes, mutated>>
    /\ parseFrame

InitParse ==
    /\ script = "parse"
    /\ catalog = PlainCatalog
    /\ remoteQty = [k \in Items |-> 0]
    /\ cacheFile = ItemIdCache(PlainCatalog)
    /\ inputFile \in {File(r) : r \in LineSeqs(MaxRows)}
    /\ whitelistFile = NoFile
    /\ processedDir = {}
    /\ InitCommon
    /\ InitNoMutate

NextParse == ParseRead \/ ParseRow \/ ParseArchive \/ ParseBarcodes

SpecParse == InitParse /\ [][NextParse]_vars

(* ----------------- export-invoicing-to-400-gql.py ---------------------- *)
\* fetch_and_export_orders: the orders fetched, the loop that builds the
\* rows, the two writes of the export and the tagging of the orders.
MaxOrders == 3
Orders == 1..MaxOrders

exportFrame ==
    UNCHANGED <<script, runNo, remoteVars, fsVars, scanVars, applyVars, auditVars,
                compareVars, mutateVars, refreshVars, overlapVars, bucketVars,
                parseVars, costVars>>

\* The while loop over fetch_orders_from_graphql: the orders it returns, of
\* which some pass the filters of the loop that follows.
ExportFetch ==
    /\ script = "export"
    /\ pc = "idle"
    /\ \E resp \in {"ok", "raise"} :
        IF resp = "ok"
        THEN /\ pc' = "eloop"
             /\ orderIdx' = 1
             /\ eligible' \in SUBSET Orders
        ELSE /\ pc' = "ecrashed"
             /\ UNCHANGED <<orderIdx, eligible>>
    /\ UNCHANGED <<orders_to_tag, tagged, smbStored, localWritten>>
    /\ exportFrame

\* One order of `for order in all_orders`: the filters, orders_to_tag.append,
\* the rows, and add_tag_to_order at the end of the loop body.
ExportOrder ==
    /\ script = "export"
    /\ pc = "eloop"
    /\ orderIdx <= MaxOrders
    /\ IF orderIdx \in eligible
       THEN /\ orders_to_tag' = Append(orders_to_tag, orderIdx)
            /\ \E resp \in {"ok", "raise"} :
                IF resp = "ok"
                THEN /\ tagged' = Append(tagged, orderIdx)
                     /\ orderIdx' = orderIdx + 1
                     /\ UNCHANGED pc
                ELSE /\ pc' = "ecrashed"
                     /\ UNCHANGED <<tagged, orderIdx>>
       ELSE /\ orderIdx' = orderIdx + 1
            /\ UNCHANGED <<pc, orders_to_tag, tagged>>
    /\ UNCHANGED <<eligible, smbStored, localWritten>>
    /\ exportFrame

\* df.to_csv and save_to_smb: a failed connect raises; an exception of
\* storeFile is printed inside save_to_smb and the function returns.
ExportSmb ==
    /\ script = "export"
    /\ pc = "eloop"
    /\ orderIdx > MaxOrders
    /\ \E resp \in {"stored", "store_error", "connect_error"} :
        /\ smbStored' = (resp = "stored")
        /\ pc' = IF resp = "connect_error" THEN "ecrashed" ELSE "elocal"
    /\ UNCHANGED <<eligible, orderIdx, orders_to_tag, tagged, localWritten>>
    /\ exportFrame

\* The local CSV: open and write; then the tagging loop starts.
ExportLocal ==
    /\ script = "export"
    /\ pc = "elocal"
    /\ \E resp \in {"ok", "raise"} :
        IF resp = "ok"
        THEN /\ localWritten' = TRUE
             /\ orderIdx' = 1
             /\ pc' = "etag"
        ELSE /\ pc' = "ecrashed"
             /\ UNCHANGED <<localWritten, orderIdx>>
    /\ UNCHANGED <<eligible, orders_to_tag, tagged, smbStored>>
    /\ exportFrame

\* for order in orders_to_tag: add_tag_to_order(order, ORDER_TAG)
ExportTag ==
    /\ script = "export"
    /\ pc = "etag"
    /\ IF orderIdx <= Len(orders_to_tag)
       THEN \E resp \in {"ok", "raise"} :
                IF resp = "ok"
                THEN /\ tagged' = Append(tagged, orders_to_tag[orderIdx])
                     /\ orderIdx' = orderIdx + 1
                     /\ UNCHANGED pc
                ELSE /\ pc' = "ecrashed"
                     /\ UNCHANGED <<tagged, orderIdx>>
       ELSE /\ pc' = "edone"
            /\ UNCHANGED <<tagged, orderIdx>>
    /\ UNCHANGED <<eligible, orders_to_tag, smbStored, localWritten>>
    /\ exportFrame

InitExport ==
    /\ script = "export"
    /\ catalog = PlainCatalog
    /\ remoteQty = [k \in Items |-> 0]
    /\ cacheFile = EmptyCache
    /\ inputFile = NoFile
    /\ whitelistFile = NoFile
    /\ processedDir = {}
    /\ InitCommon
    /\ InitNoMutate

NextExport == ExportFetch \/ ExportOrder \/ ExportSmb \/ ExportLocal \/ ExportTag

SpecExport == InitExport /\ [][NextExport]_vars

(* ------------- costing-files/import-costs-shopify.py ------------------- *)
\* process_file run again and again on one input file, with the progress
\* file between the runs. A style-color is the sequence of the parts its
\* text has between hyphens: "A-001" is <<"A", "001">>, and a style with a
\* hyphen of its own gives three parts.
StyleColors == {<<"A", "001">>, <<"A", "001", "002">>, <<"B", "001">>}

CostInputs == UNION {[1..m -> StyleColors] : m \in 1..MaxRows}

\* save_progress: style_color.rsplit('-', 1), and the row [style, color]
\* appended to the progress file.
progress_row(style_color) ==
    IF Len(style_color) >= 2
    THEN [style |-> SubSeq(style_color, 1, Len(style_color) - 1),
          color |-> <<style_color[Len(style_color)]>>]
    ELSE [style |-> style_color, color |-> <<>>]

save_progress(file, current, style_color) ==
    IF style_color \in current
    THEN file
    ELSE Append(file, progress_row(style_color))

\* load_processed_skus: row[0].strip() of every row of the progress file.
load_processed_skus(file) == {file[i].style : i \in DOMAIN file}

costFrame ==
    UNCHANGED <<script, remoteVars, fsVars, scanVars, inventory_data, missing_barcodes,
                attempts, mutated, failed, reqTick, auditVars, compareVars, mutateVars,
                refreshVars, overlapVars, bucketVars, parseVars, exportVars>>

\* main: process_file up to the row loop. Every run is a new process:
\* current_run_processed_skus starts empty.
CostStart ==
    /\ script = "costs"
    /\ pc \in {"idle", "kdone", "kcrashed"}
    /\ runNo < MaxRuns
    /\ runNo' = runNo + 1
    /\ IF runNo = 0
       THEN costInput' \in CostInputs
       ELSE UNCHANGED costInput
    /\ processed_skus' = load_processed_skus(progressFile)
    /\ current_run_processed_skus' = {}
    /\ rowIdx' = 1
    /\ pc' = "krows"
    /\ UNCHANGED <<progressFile, costUpdates>>
    /\ costFrame

\* One row of process_file: the skip, the lookup of the inventory items,
\* update_cost_per_item and save_progress.
CostRow ==
    /\ script = "costs"
    /\ pc = "krows"
    /\ rowIdx <= Len(costInput)
    /\ LET style_color == costInput[rowIdx]
       IN  IF style_color \in processed_skus
           THEN /\ rowIdx' = rowIdx + 1
                /\ UNCHANGED <<pc, progressFile, current_run_processed_skus,
                               costUpdates>>
           ELSE \E resp \in {"updated", "not_found", "raise"} :
                CASE resp = "updated" ->
                    /\ costUpdates' = Append(costUpdates,
                                             [run |-> runNo, sku |-> style_color])
                    /\ progressFile' = save_progress(progressFile,
                                                     current_run_processed_skus,
                                                     style_color)
                    /\ current_run_processed_skus' =
                           current_run_processed_skus \cup {style_color}
                    /\ rowIdx' = rowIdx + 1
                    /\ UNCHANGED pc
                  [] resp = "not_found" ->
                    \* save_not_found_result
                    /\ rowIdx' = rowIdx + 1
                    /\ UNCHANGED <<pc, progressFile, current_run_processed_skus,
                                   costUpdates>>
                  [] resp = "raise" ->
                    \* a request raised: the process ends here
                    /\ pc' = "kcrashed"
                    /\ UNCHANGED <<rowIdx, progressFile, current_run_processed_skus,
                                   costUpdates>>
    /\ UNCHANGED <<runNo, costInput, processed_skus>>
    /\ costFrame

\* The loop is over.
CostEnd ==
    /\ script = "costs"
    /\ pc = "krows"
    /\ rowIdx > Len(costInput)
    /\ pc' = "kdone"
    /\ UNCHANGED <<runNo, rowIdx, costInput, progressFile, processed_skus,
                   current_run_processed_skus, costUpdates>>
    /\ costFrame

InitCosts ==
    /\ script = "costs"
    /\ catalog = PlainCatalog
    /\ remoteQty = [k \in Items |-> 0]
    /\ cacheFile = EmptyCache
    /\ inputFile = NoFile
    /\ whitelistFile = NoFile
    /\ processedDir = {}
    /\ InitCommon
    /\ InitNoMutate

NextCosts == CostStart \/ CostRow \/ CostEnd

SpecCosts == InitCosts /\ [][NextCosts]_vars

(* ----------------------- the scripts together -------------------------- *)
Init == InitImport \/ InitCompare \/ InitMutate \/ InitRefresh \/ InitOverlap \/ InitBucket \/ InitParse \/ InitExport \/ InitCosts
Next == NextImport \/ NextCompare \/ NextMutate \/ NextRefresh \/ NextOverlap \/ NextBucket \/ NextParse \/ NextExport \/ RemoteSale \/ NextCosts
Spec == Init /\ [][Next]_vars

\* The two reconciliation modes.
InitReconcile == InitImport \/ InitCompare
NextReconcile == NextImport \/ NextCompare
SpecReconcile == InitReconcile /\ [][NextReconcile]_vars

(* ============================== claims ================================= *)

\* C1: applying the same correction twice leaves the remote on-hand quantity
\* equal to what one application leaves, for every starting quantity: when
\* both calls were accepted by the remote, the item's quantity after the
\* second call is its quantity after the first.
C1_ApplyTwiceEqualsOnce ==
    (script = "mutate" /\ outcomes = <<"ok", "ok">>)
        => remoteQty[ItemOfId(inventory_item_id)] = afterFirst

\* C1, its second half: no mutation that adjusts by a delta is ever sent.
C1_NoDeltaMutation == ~sentDelta

\* C2: a call of update_inventory_level that the remote keeps answering with
\* 429 ends after a bounded number of attempts: whenever the call has been
\* throttled MaxAttempts times it eventually returns.
C2_ThrottledCallReturns ==
    (script = "mutate" /\ pc = "msend" /\ attempts = MaxAttempts) ~> (pc # "msend")

\* C3: an import run in which a mutation has been throttled beyond the retry
\* bound still reaches Reporting and archives the input file: from a mutation
\* throttled MaxAttempts times the run eventually gets past the row loop.
C3_ThrottledRunReachesReport ==
    (script = "import" /\ pc = "mutate" /\ attempts = MaxAttempts)
        ~> (pc \in {"archive", "done"})

\* The row of the file that counts for barcode b: the last one carrying it.
LastRowOf(rows, b) == CHOOSE i \in DOMAIN rows :
    /\ rows[i].barcode = b
    /\ \A j \in DOMAIN rows : rows[j].barcode = b => j <= i

\* C4: after an import run that completed (the report step was passed and the
\* input file archived), every remote item whose barcode is in the input file
\* and has an entry in the identifier cache has the quantity of the last row
\* of the file for that barcode.
C4_CompletedRunAppliesFile ==
    (script = "import" /\ pc = "done" /\ notified = "processed")
        => \A i \in DOMAIN inventory_data :
            LET b == inventory_data[i].barcode
            IN  b \in DOMAIN cacheFile
                    => \A k \in Items :
                        catalog[k].barcode = b
                            => remoteQty[k] =
                                   inventory_data[LastRowOf(inventory_data, b)].quantity

\* The items of a compare run, as the claims speak of them.
Skus(seq) == {seq[i].sku : i \in DOMAIN seq}
ScannedItems == 1..(page - 1)
Sellable(k) == remoteQty[k] > 0 /\ catalog[k].avail
AbsentFromFile(k) ==
    catalog[k].barcode \notin get_inventory_barcodes(inventory_file_path)
Whitelisted(k) == catalog[k].barcode \in load_whitelist(whitelistFile)

\* C5: a compare run never calls set_inventory_to_zero for a barcode of the
\* whitelist (a stripped non-blank line of the whitelist file), and never
\* sends the zeroing mutation for an item carrying such a barcode, whatever
\* the item's quantity and availability and whether or not the barcode is in
\* the inventory file.
C5_WhitelistedNeverZeroed ==
    script = "compare" =>
        /\ \A i \in DOMAIN zeroCalls :
               zeroCalls[i].barcode \notin load_whitelist(whitelistFile)
        /\ pc = "czeroMutate" => ~Whitelisted(ItemOfId(inventory_item_id))

\* C5, its case: a finished run that zeroed something while a whitelisted
\* item was sellable and absent from the inventory file.
C5_WhitelistedItemSurvives ==
    /\ script = "compare"
    /\ pc = "done"
    /\ notified = "processed"
    /\ zeroCalls # <<>>
    /\ \E k \in Items : Whitelisted(k) /\ Sellable(k) /\ AbsentFromFile(k)

\* C6 as stated: when the lists are built, the items to zero are exactly the
\* scanned items with quantity > 0 and availableForSale whose barcode is in
\* neither the inventory file nor the whitelist.
C6_ZeroingSetAsStated ==
    (script = "compare" /\ pc = "creport")
        => Skus(missing_inventory) =
               {k \in ScannedItems :
                    Sellable(k) /\ AbsentFromFile(k) /\ ~Whitelisted(k)}

\* C6, amended: the items to zero are exactly the scanned items with a
\* non-blank barcode, quantity > 0 and availableForSale whose barcode is in
\* neither the inventory file nor the whitelist; those absent from the file
\* but whitelisted make up the ignored list; the two lists are disjoint;
\* set_inventory_to_zero is called for the items to zero, in order, and for
\* all of them when the run finishes.
C6_ZeroingSet ==
    script = "compare" =>
        /\ pc = "creport" =>
            /\ Skus(missing_inventory) =
                   {k \in ScannedItems :
                        /\ NonBlank(catalog[k].barcode)
                        /\ Sellable(k)
                        /\ AbsentFromFile(k)
                        /\ ~Whitelisted(k)}
            /\ Skus(ignored_whitelist) =
                   {k \in ScannedItems :
                        /\ NonBlank(catalog[k].barcode)
                        /\ Sellable(k)
                        /\ AbsentFromFile(k)
                        /\ Whitelisted(k)}
        /\ Skus(missing_inventory) \cap Skus(ignored_whitelist) = {}
        /\ Cardinality(Skus(missing_inventory)) = Len(missing_inventory)
        /\ Len(zeroCalls) <= Len(missing_inventory)
        /\ zeroCalls = SubSeq(missing_inventory, 1, Len(zeroCalls))
        /\ (pc = "done" /\ notified = "processed") => zeroCalls = missing_inventory

\* C6, its case: a finished run that zeroed an item and left alone a sellable
\* item that has no barcode.
C6_BlankBarcodeLeftAlone ==
    /\ script = "compare"
    /\ pc = "done"
    /\ notified = "processed"
    /\ zeroCalls # <<>>
    /\ \E k \in Items : catalog[k].barcode = 0 /\ Sellable(k)

\* The rows of the import file whose barcode has no entry in the cache.
RowsWithoutCacheHit ==
    {i \in DOMAIN inventory_data :
         find_inventory_item_id(cacheFile, inventory_data[i].barcode) = 0}

\* C7 as stated: the report has as many missing-barcode rows as, in import
\* mode, rows of the input file without a cache hit and, in compare mode,
\* non-whitelisted remote items absent from the inventory file (looked at in
\* the runs whose scan fetched every page).
C7_ReportCountAsStated ==
    /\ (script = "import" /\ pc = "archive")
           => Len(report.rows) = Cardinality(RowsWithoutCacheHit)
    /\ (script = "compare" /\ report.written /\ ~scanFailed)
           => Len(report.rows) =
                  Cardinality({k \in Items : ~Whitelisted(k) /\ AbsentFromFile(k)})

\* C7, amended: in import mode the report has one row for every row of the
\* input file without a cache hit (and is written only when there is one);
\* in compare mode it has one row for every item the scan collected (fetched
\* page, non-blank barcode, quantity > 0, availableForSale) that is absent
\* from the inventory file and not whitelisted.
C7_ReportCount ==
    /\ (script = "import" /\ (pc = "archive" \/ (pc = "done" /\ notified = "processed")))
           => /\ Len(report.rows) = Cardinality(RowsWithoutCacheHit)
              /\ report.written <=> RowsWithoutCacheHit # {}
    /\ (script = "compare" /\ report.written /\ ~mutated)
           => Len(report.rows) =
                  Cardinality({k \in ScannedItems :
                                   /\ NonBlank(catalog[k].barcode)
                                   /\ Sellable(k)
                                   /\ AbsentFromFile(k)
                                   /\ ~Whitelisted(k)})

\* C7, its case: a compare report with a row, written while a remote item that
\* is not whitelisted, absent from the file and not sellable has none.
C7_ReportOmitsUnsellable ==
    /\ script = "compare"
    /\ report.written
    /\ ~mutated
    /\ Len(report.rows) = 1
    /\ \E k \in Items : ~Sellable(k) /\ ~Whitelisted(k) /\ AbsentFromFile(k)

\* C8: once an import run has archived the input file the input path is
\* empty; a run started after that one reads no rows and sends no mutation;
\* and the archived copy is no input of a later run: the import reads the
\* input path only and get_latest_inventory_file does not select it.
C8_NoDoubleProcessing ==
    script = "import" =>
        /\ (pc = "done" /\ notified = "processed") => ~inputFile.exists
        /\ processedDir # {} => ~inputFile.exists
        /\ (\E f \in processedDir : f.ctime < runNo)
               => /\ ~mutated
                  /\ inventory_data = <<>>
                  /\ pc \notin {"rows", "mutate", "archive"}
        /\ get_latest_inventory_file(processedDir) = NoFile

\* C8, its case: a second run has ended after a first one archived the file.
C8_SecondRunEnded ==
    /\ script = "import"
    /\ runNo = 2
    /\ pc = "done"
    /\ \E f \in processedDir : f.ctime = 1

\* C9: a run that began applying corrections and has ended attempted every
\* record, wrote its report and archived its input, whatever failed on the
\* way: in import mode every row was passed and the file was moved, in
\* compare mode set_inventory_to_zero was called for every missing item and
\* the run reached its end.
C9_FailureDoesNotAbort ==
    /\ (script = "import" /\ pc = "done" /\ inventory_data # <<>>)
           => /\ rowIdx > Len(inventory_data)
              /\ notified = "processed"
              /\ ~inputFile.exists
    /\ (script = "compare" /\ pc \in {"done", "crashed"} /\ report.written)
           => /\ Len(zeroCalls) = Len(missing_inventory)
              /\ notified = "processed"

\* C10: a run whose catalog scan broke off on a non-success status has no
\* side effect: no mutation sent, no report written, no input file archived,
\* no notification.
C10_FailedScanNoSideEffects ==
    scanFailed =>
        /\ ~mutated
        /\ ~report.written
        /\ notified = "none"
        /\ \A f \in processedDir : f.ctime # runNo

\* C11: when a page request of the catalog scan is answered with an HTTP
\* error the scan surfaces the error: its caller is never handed the items of
\* the pages fetched so far as the result of the scan.
C11_ScanErrorSurfaces ==
    (script = "compare" /\ scanFailed) => pc # "creconcile"

\* C12: a cache refresh that broke off on a failed page request after at least
\* one page was fetched leaves inventory_cache.json exactly as it was when the
\* refresh began.
C12_FailedRefreshLeavesCache ==
    (script = "refresh" /\ pc = "rdone" /\ scanFailed /\ page > 1)
        => cacheFile = cacheBefore

\* C19: a refresh that fetched every page, run after another one that did so
\* against the same catalog, leaves inventory_cache.json as the first left it
\* and writes nothing (has_changes stays false), also when variants share a
\* barcode.
C19_SecondRefreshChangesNothing ==
    (script = "refresh" /\ pc = "rdone" /\ ~scanFailed /\ page = NumItems + 1
        /\ prevCompleted)
        => (cacheFile = cacheBefore /\ ~saved)

\* C19, the half of it about the content of the file alone.
C19_SecondRefreshSameContent ==
    (script = "refresh" /\ pc = "rdone" /\ ~scanFailed /\ page = NumItems + 1
        /\ prevCompleted)
        => cacheFile = cacheBefore

\* The last of the scanned variants that carries barcode b.
LastScannedWith(b) == CHOOSE k \in ScannedItems :
    /\ catalog[k].barcode = b
    /\ \A j \in ScannedItems : catalog[j].barcode = b => j <= k

\* C20: after a scan that ended on a page without successor, the cache has
\* for every non-blank barcode seen one entry, the identifier of the last
\* variant scanned with that barcode; the entries it had before are kept; and
\* no absent, empty or whitespace-only barcode is ever a key.
C20_LastWriterWins ==
    script = "refresh" =>
        /\ \A b \in DOMAIN cacheFile \cup DOMAIN inventory_cache : NonBlank(b)
        /\ (pc = "rdone" /\ ~scanFailed) =>
            /\ \A k \in ScannedItems :
                NonBlank(catalog[k].barcode) =>
                    /\ catalog[k].barcode \in DOMAIN cacheFile
                    /\ cacheFile[catalog[k].barcode] =
                           StoredId(variant, LastScannedWith(catalog[k].barcode))
            /\ DOMAIN cacheBefore \subseteq DOMAIN cacheFile

\* C20, its case: a completed scan of two variants that share a barcode, next
\* to a cache entry of before the scan.
C20_SharedBarcodeScanned ==
    /\ script = "refresh"
    /\ pc = "rdone"
    /\ ~scanFailed
    /\ page = NumItems + 1
    /\ saved
    /\ cacheBefore # EmptyCache
    /\ \E j, k \in Items :
        j # k /\ catalog[j].barcode = catalog[k].barcode /\ NonBlank(catalog[k].barcode)

C14_EveryVariantZeroed ==
    (script = "compare" /\ pc = "done" /\ notified = "processed" /\ ~failed)
        => \A i \in DOMAIN zeroCalls :
            \A k \in Items :
                catalog[k].barcode = zeroCalls[i].barcode => remoteQty[k] = 0

\* C15: a mutation that the remote rejected (200 with errors) or answered
\* with a failed status other than 429 is not sent again: the call has
\* returned with that outcome.
C15_RejectedIsTerminal ==
    (script = "mutate" /\ lastAnswer \in {"rejected", "error"})
        => /\ pc = "returned"
           /\ outcomes # <<>>
           /\ outcomes[Len(outcomes)] = lastAnswer

\* C15, its case: the first call of import-inventory-to-shopify.py's
\* update_inventory_level has been rejected.
C15_RejectedOnce ==
    /\ script = "mutate"
    /\ variant = "import-inventory-to-shopify"
    /\ lastAnswer = "rejected"
    /\ outcomes = <<"rejected">>

\* C16: in import-inventory-to-shopify.py a 429 does not end the call of
\* update_inventory_level: the same request (item and quantity) is sent
\* again, and when an attempt is answered 200 the call ends as applied with
\* the item at the target quantity, after two throttled attempts as after
\* any number.
C16_ThrottledThenApplied ==
    (script = "mutate" /\ variant = "import-inventory-to-shopify")
        => /\ lastAnswer = "throttled" => (pc = "msend" /\ attempts >= 1)
           /\ (pc = "returned" /\ lastAnswer = "ok")
                  => /\ outcomes[Len(outcomes)] = "ok"
                     /\ remoteQty[ItemOfId(inventory_item_id)] = quantity

\* C16, its case: throttled twice, then answered 200, and the item has the
\* target quantity.
C16_AppliedOnThirdAttempt ==
    /\ script = "mutate"
    /\ variant = "import-inventory-to-shopify"
    /\ pc = "returned"
    /\ outcomes = <<"ok">>
    /\ retries = 2
    /\ quantity = MaxQty
    /\ remoteQty[ItemOfId(inventory_item_id)] = MaxQty
    /\ afterFirst = MaxQty


\* C17: two runs against the same input path never overlap: at most one run
\* at a time is between reading the input file and archiving it.
C17_RunsNeverOverlap ==
    script = "overlap" =>
        Cardinality({p \in Runs : procPc[p] \in InsideRun}) <= 1


\* C18: with several workers calling the rate limiter concurrently, the
\* total cost admitted never exceeds the bucket capacity plus the refill
\* accrued since the start.
C18_AdmittedWithinBudget ==
    script = "bucket" => admitted <= POINTS_PER_SECOND + RefillOf(now)


\* C21: a malformed input row is skipped, it never stops the run, and every
\* well-formed row of the same file is still processed: a run that has
\* ended, on a file with a well-formed row, has gone through all the
\* well-formed rows of the file it began with.
C21_MalformedRowSkipped ==
    (script = "parse" /\ pc \in {"pdone", "pcrashed"} /\ WellFormed(rawLines) # <<>>) =>
        (pc = "pdone" /\ rowIdx = Len(WellFormed(rawLines)) + 1)


C23_ScanTerminates ==
    (script = "refresh" /\ pc = "rscan") ~> (pc # "rscan")


\* C24: within a run the stages come in the order Scan, Reconcile, Apply,
\* Report, Archive: no mutation is issued while the scan is going on, and
\* the missing-inventory file is not written before every correction of
\* the run has been attempted.
C24_StagesInOrder ==
    script = "compare" =>
        /\ (pc = "cscan" => ~mutated)
        /\ (report.written => Len(zeroCalls) = Len(missing_inventory))


\* C25: every value stored in the cache file for a barcode is the
\* inventory-item identifier of a remote variant carrying that barcode,
\* whichever of the two writers wrote it last: after a refresh that fetched
\* every page, each barcode of the catalog that is a key of the file maps to
\* the inventory-item identifier of a variant with that barcode.
C25_CacheHoldsInventoryItemIds ==
    (script = "refresh" /\ pc = "rdone" /\ ~scanFailed /\ page = NumItems + 1) =>
        \A b \in DOMAIN cacheFile :
            (\E k \in Items : catalog[k].barcode = b) =>
                \E k \in Items : /\ catalog[k].barcode = b
                                 /\ cacheFile[b] = InventoryItemId(k)


\* C26: in fetch_and_export_orders an order is tagged only after both the
\* SMB file and the local CSV were written: whenever a tagsAdd mutation has
\* been sent, both writes have succeeded.
C26_TagOnlyAfterExport ==
    (script = "export" /\ tagged # <<>>) => (smbStored /\ localWritten)


\* C27: an action is reported as applied only if the remote accepted the
\* mutation: a call whose last answer was status 200 with user errors does
\* not print the success line.
C27_RejectedNotReportedApplied ==
    (script = "mutate" /\ pc = "returned" /\ lastAnswer = "rejected") =>
        Prints(variant, lastAnswer) # "Successfully"


\* C28: in inventory-import-to-shopify2, when update_inventory_level(item,
\* location, q) reports success, the remote quantity of the item equals q,
\* also when the remote quantity changes between the read of
\* inventory_levels and the adjust request.
C28_SuccessMeansQuantitySet ==
    (script = "mutate" /\ variant = "inventory-import-to-shopify2"
     /\ pc = "returned" /\ lastAnswer = "ok") =>
        remoteQty[ItemOfId(inventory_item_id)] = quantity


\* C29: after any sequence of check_rate_limit(cost) calls with
\* cost <= POINTS_PER_SECOND, points_available stays within
\* [0, POINTS_PER_SECOND], also right after a call that had to sleep.
C29_BudgetStaysInRange ==
    script = "bucket" =>
        (0 <= points_available /\ points_available <= POINTS_PER_SECOND)


\* C30: progress round-trips across runs: a style-color recorded by
\* save_progress in one run is skipped by process_file in a later run, so
\* no style-color gets cost updates in two different runs.
C30_ProgressRoundTrips ==
    script = "costs" =>
        \A i, j \in DOMAIN costUpdates :
            costUpdates[i].sku = costUpdates[j].sku =>
                costUpdates[i].run = costUpdates[j].run

====
